---- MODULE Spec2Model ----
(***************************************************************************)
(* KindleMyPaper (src/app.py): the markdown cleaner clean_markdown, the    *)
(* rule-based treatment basic_markdown_treatment, the apply_treatment      *)
(* handler, the title extraction, the response sanitizer and the handlers  *)
(* upload_pdf, convert_pdf and generate_epub with the upload registry.     *)
(* A Python str is a sequence of one-character strings.                    *)
(***************************************************************************)
EXTENDS Integers, Sequences, FiniteSets, TLC

VARIABLES content, filename, temp_image_urls, clean_pc, cleaned_lines,
          title_set, clean_result,
          request, AI_AVAILABLE, OPENAI_API_KEY, treat_pc, remote, response,
          remote_calls,
          markdown_content, title, title_pc,
          raw_result, cleaned_result, recleaned_result, sanitize_pc,
          uploaded_files, tmp_dirs, tmp_count, temp_images, now,
          MARKER_AVAILABLE, http_request, http_response, extractor, renderer,
          epub_cleanup, converted, session_created

cleanVars == <<content, filename, temp_image_urls, clean_pc, cleaned_lines,
               title_set, clean_result>>
treatVars == <<request, AI_AVAILABLE, OPENAI_API_KEY, treat_pc, remote,
               response, remote_calls>>
titleVars == <<markdown_content, title, title_pc>>
sanitizeVars == <<raw_result, cleaned_result, recleaned_result, sanitize_pc>>
worldVars == <<uploaded_files, tmp_dirs, tmp_count, temp_images, now>>
serverVars == <<worldVars, MARKER_AVAILABLE, http_request, http_response,
                extractor, renderer, epub_cleanup, converted, session_created>>
vars == <<cleanVars, treatVars, titleVars, sanitizeVars, serverVars>>

----------------------------------------------------------------------------
(* Bounds of the model *)

\* lines of a raw markdown document given to clean_markdown
MaxLines == 3
\* image URLs handed to clean_markdown
MaxUrls == 2
\* lines of a markdown document of a treatment request
MaxTreatLines == 2
\* lines of a markdown document whose title is extracted
MaxTitleLines == 3
\* lines of an output of the remote service given to the sanitizer
MaxResponseLines == 4
\* directories made by tempfile.mkdtemp in one run of the server
MaxTmpDirs == 2
\* advances of the clock in one run of the server
MaxTicks == 1

----------------------------------------------------------------------------
(* Python str primitives *)

NL == "\n"
Range(s) == {s[i] : i \in 1..Len(s)}

UpperLetters == <<"A","B","C","D","E","F","G","H","I","J","K","L","M",
                  "N","O","P","Q","R","S","T","U","V","W","X","Y","Z">>
LowerLetters == <<"a","b","c","d","e","f","g","h","i","j","k","l","m",
                  "n","o","p","q","r","s","t","u","v","w","x","y","z">>
Digits == <<"0","1","2","3","4","5","6","7","8","9">>
Whitespace == {" ", "\t", "\r", "\n"}

UpperSet == Range(UpperLetters)
LowerSet == Range(LowerLetters)
DigitSet == Range(Digits)
IsUpperChar(c) == c \in UpperSet
IsLowerChar(c) == c \in LowerSet
IsCased(c) == IsUpperChar(c) \/ IsLowerChar(c)
IndexOf(c, seq) == CHOOSE i \in 1..Len(seq) : seq[i] = c
ToLower(c) == IF IsUpperChar(c) THEN LowerLetters[IndexOf(c, UpperLetters)] ELSE c
ToUpper(c) == IF IsLowerChar(c) THEN UpperLetters[IndexOf(c, LowerLetters)] ELSE c

\* str.startswith(prefix)
Startswith(s, p) == Len(s) >= Len(p) /\ \A d \in 1..Len(p) : s[d] = p[d]
\* sub in s
Contains(s, p) ==
    \E i \in 1..(Len(s) - Len(p) + 1) : \A d \in 1..Len(p) : s[i + d - 1] = p[d]

\* str.strip(): leading and trailing whitespace removed
Strip(s) ==
    LET n == Len(s)
    IN  IF \A i \in 1..n : s[i] \in Whitespace THEN <<>>
        ELSE LET a == CHOOSE i \in 1..n :
                          s[i] \notin Whitespace /\ \A j \in 1..(i - 1) : s[j] \in Whitespace
                 k == CHOOSE i \in 1..n :
                          s[n + 1 - i] \notin Whitespace
                          /\ \A j \in 1..(i - 1) : s[n + 1 - j] \in Whitespace
             IN  SubSeq(s, a, n + 1 - k)

\* str.split('\n')
RECURSIVE Split(_)
Split(s) ==
    IF \A i \in 1..Len(s) : s[i] # NL THEN <<s>>
    ELSE LET i == CHOOSE k \in 1..Len(s) : s[k] = NL /\ \A j \in 1..(k - 1) : s[j] # NL
         IN  <<SubSeq(s, 1, i - 1)>> \o Split(SubSeq(s, i + 1, Len(s)))

\* '\n'.join(lines)
RECURSIVE Join(_)
Join(ls) ==
    IF Len(ls) = 0 THEN <<>>
    ELSE IF Len(ls) = 1 THEN ls[1]
    ELSE ls[1] \o <<NL>> \o Join(Tail(ls))

\* str.replace(old, new), old non-empty: left to right, non-overlapping
RECURSIVE Replace(_, _, _)
Replace(s, old, new) ==
    LET m == Len(old)
        IsMatch(i) == \A d \in 1..m : s[i + d - 1] = old[d]
    IN  IF \A i \in 1..(Len(s) - m + 1) : ~IsMatch(i) THEN s
        ELSE LET i == CHOOSE k \in 1..(Len(s) - m + 1) :
                          IsMatch(k) /\ \A j \in 1..(k - 1) : ~IsMatch(j)
             IN  SubSeq(s, 1, i - 1) \o new \o Replace(SubSeq(s, i + m, Len(s)), old, new)

\* str.isupper(): at least one cased character and no lower-case one
IsUpper(s) == (\E i \in 1..Len(s) : IsUpperChar(s[i]))
              /\ (\A i \in 1..Len(s) : ~IsLowerChar(s[i]))

\* str.title(): a cased character is upper-cased at the start of a run of
\* cased characters and lower-cased inside it
Title(s) ==
    [i \in 1..Len(s) |->
        IF ~IsCased(s[i]) THEN s[i]
        ELSE IF i > 1 /\ IsCased(s[i - 1]) THEN ToLower(s[i]) ELSE ToUpper(s[i])]

\* str.split(): the whitespace-separated tokens; LastToken is split()[-1]
\* of a stripped, non-empty string
LastToken(s) ==
    LET n == Len(s)
    IN  IF \A i \in 1..n : s[i] \notin Whitespace THEN s
        ELSE LET k == CHOOSE i \in 1..n :
                          s[n + 1 - i] \in Whitespace
                          /\ \A j \in 1..(i - 1) : s[n + 1 - j] \notin Whitespace
             IN  SubSeq(s, n + 2 - k, n)

\* str.isdigit()
IsDigit(s) == Len(s) > 0 /\ \A i \in 1..Len(s) : s[i] \in DigitSet

\* str(n) of a natural number, as an f-string formats it
RECURSIVE IntToStr(_)
IntToStr(n) ==
    IF n < 10 THEN <<Digits[n + 1]>>
    ELSE IntToStr(n \div 10) \o <<Digits[(n % 10) + 1]>>

----------------------------------------------------------------------------
(* clean_markdown *)

PagePrefix == <<"#","#"," ","P","a","g","e"," ">>
PageImagePrefix == <<"!","[","]","(","_","p","a","g","e","_">>
ImageToken == <<"[","I","m","a","g","e"," ","#">>
PdfExt == <<".","p","d","f">>
H1 == <<"#"," ">>
H2 == <<"#","#"," ">>
Hash == <<"#">>
FigureNotice == <<"*","[","F","i","g","u","r","e","/","I","m","a","g","e"," ",
                  "a","v","a","i","l","a","b","l","e"," ","i","n"," ",
                  "o","r","i","g","i","n","a","l"," ","P","D","F","]","*">>

\* line 239: line.strip().startswith('## Page ') and
\*           line.strip().endswith(line.strip().split()[-1].isdigit())
\* str.endswith takes a str or a tuple of str; isdigit() gives a bool, so
\* the second operand raises TypeError whenever it is evaluated.
PageMarkerTest(line) ==
    LET s == Strip(line)
    IN  IF ~Startswith(s, PagePrefix) THEN "False"
        ELSE LET arg == IsDigit(LastToken(s))
             IN  IF arg \in BOOLEAN THEN "TypeError" ELSE "False"

\* line 243
IsBrokenImage(line) ==
    Startswith(Strip(line), PageImagePrefix) \/ Contains(line, ImageToken)

\* the caption numbered from the 0-based index
FigureLine_ZeroBased(image_index, image_url) ==
    <<"!","[","F","i","g","u","r","e"," ">> \o IntToStr(image_index)
        \o <<"]","(">> \o image_url \o <<")">>

\* line 247: f"![Figure {image_index + 1}]({image_url})"
FigureLine(image_index, image_url) ==
    <<"!","[","F","i","g","u","r","e"," ">> \o IntToStr(image_index + 1)
        \o <<"]","(">> \o image_url \o <<")">>

\* line 257: f"# {filename.replace('.pdf', '')}"
FilenameStub(fname) == H1 \o Replace(fname, PdfExt, <<>>)

\* the duplicate-of-filename test made before the first-title test
KeepsLine_DuplicateFirst(line, fname, titled) ==
    IF Startswith(line, Hash) /\ Strip(line) = FilenameStub(fname) THEN FALSE
    ELSE TRUE

\* lines 254-260: does title handling append the line
KeepsLine(line, fname, titled) ==
    IF Startswith(line, H1) /\ ~titled THEN TRUE
    ELSE IF Startswith(line, Hash) /\ Strip(line) # FilenameStub(fname) THEN TRUE
    ELSE ~Startswith(line, H1)

\* lines 237-260: one iteration of the loop
CleanLine(line, fname, urls, st) ==
    LET pm == PageMarkerTest(line)
    IN  IF pm = "TypeError" THEN [st EXCEPT !.raised = "TypeError"]
        ELSE IF pm = "True" THEN st
        ELSE IF IsBrokenImage(line)
             THEN IF st.image_index < Len(urls)
                  THEN [st EXCEPT
                          !.cleaned_lines = Append(@, FigureLine(st.image_index, urls[st.image_index + 1])),
                          !.image_index = @ + 1]
                  ELSE [st EXCEPT !.cleaned_lines = Append(@, FigureNotice)]
        ELSE IF KeepsLine(line, fname, st.title_set)
             THEN [st EXCEPT !.cleaned_lines = Append(@, line),
                             !.title_set = @ \/ Startswith(line, H1)]
        ELSE st

\* lines 230-260: the loop over the lines; an exception ends it
RECURSIVE CleanLoop(_, _, _, _)
CleanLoop(lines, fname, urls, st) ==
    IF lines = <<>> \/ st.raised # "none" THEN st
    ELSE CleanLoop(Tail(lines), fname, urls, CleanLine(Head(lines), fname, urls, st))

CleanStart == [cleaned_lines |-> <<>>, title_set |-> FALSE, image_index |-> 0,
               raised |-> "none"]

\* the stub with its separators replaced, not title-cased
FallbackTitle_NoTitleCase(fname) ==
    Replace(Replace(Replace(fname, PdfExt, <<>>), <<"_">>, <<" ">>), <<"-">>, <<" ">>)

\* line 271
FallbackTitle(fname) ==
    Title(Replace(Replace(Replace(fname, PdfExt, <<>>), <<"_">>, <<" ">>), <<"-">>, <<" ">>))

\* the promoted second-level line left in place (no pop)
AddTitle_NoPop(cl, fname) ==
    LET h2 == {i \in 1..Len(cl) : Startswith(cl[i], H2)}
    IN  IF h2 # {}
        THEN LET i == CHOOSE k \in h2 : \A j \in h2 : k <= j
             IN  <<H1 \o SubSeq(cl[i], 4, Len(cl[i]))>> \o cl
        ELSE <<H1 \o FallbackTitle(fname) \o <<NL>> >> \o cl

\* lines 262-272: the post-pass when no title was found
AddTitle(cl, fname) ==
    LET h2 == {i \in 1..Len(cl) : Startswith(cl[i], H2)}
    IN  IF h2 # {}
        THEN LET i == CHOOSE k \in h2 : \A j \in h2 : k <= j
                 line == cl[i]
             IN  <<H1 \o SubSeq(line, 4, Len(line))>>
                     \o SubSeq(cl, 1, i - 1)
                     \o SubSeq(cl, i + 1, Len(cl))
        ELSE <<H1 \o FallbackTitle(fname) \o <<NL>> >> \o cl

\* the post-pass of lines 262-272 left out
clean_markdown_NoPostPass(c, fname, urls) ==
    LET st == CleanLoop(Split(c), fname, urls, CleanStart)
    IN  IF st.raised # "none" THEN [raised |-> st.raised, value |-> <<>>]
        ELSE [raised |-> "none", value |-> Join(st.cleaned_lines)]

\* lines 228-274
clean_markdown(c, fname, urls) ==
    LET st == CleanLoop(Split(c), fname, urls, CleanStart)
    IN  IF st.raised # "none" THEN [raised |-> st.raised, value |-> <<>>]
        ELSE [raised |-> "none",
              value |-> Join(IF st.title_set THEN st.cleaned_lines
                             ELSE AddTitle(st.cleaned_lines, fname))]

----------------------------------------------------------------------------
(* extract_title_from_markdown (lines 276-284) *)

\* line 284
DefaultTitle == <<"A","c","a","d","e","m","i","c"," ","P","a","p","e","r">>

\* the first heading of any level taken as the title
extract_title_from_markdown_AnyLevel(markdown) ==
    LET lines == Split(markdown)
        hs == {i \in 1..Len(lines) : Startswith(lines[i], H1) \/ Startswith(lines[i], H2)}
    IN  IF hs = {} THEN DefaultTitle
        ELSE LET line == lines[CHOOSE i \in hs : \A j \in hs : i <= j]
             IN  Strip(SubSeq(line, 3, Len(line)))

\* lines 278-284: the first line starting with '# ' returns line[2:].strip()
extract_title_from_markdown(markdown) ==
    LET lines == Split(markdown)
        hs == {i \in 1..Len(lines) : Startswith(lines[i], H1)}
    IN  IF hs = {} THEN DefaultTitle
        ELSE LET line == lines[CHOOSE i \in hs : \A j \in hs : i <= j]
             IN  Strip(SubSeq(line, 3, Len(line)))

----------------------------------------------------------------------------
(* The response sanitizer clean_gemini_response.  The tests import it from  *)
(* app, but the app.py of src/ does not define it: it is modelled from the  *)
(* specification (section 4.2, Scenario D) and from the cases of            *)
(* TestCleanGeminiResponse.                                                 *)

\* the backtick character U+0060, one character
Backtick == "<U+0060>"
Fence == <<Backtick, Backtick, Backtick>>
WordSet == UpperSet \cup LowerSet \cup DigitSet \cup {"_"}
\* a fence delimiter line with or without a language tag, and a closing one
IsFenceOpen(line) == Startswith(line, Fence) /\ \A i \in 4..Len(line) : line[i] \in WordSet
IsFenceClose(line) == line = Fence
\* the output is wrapped entirely in one fenced block
IsWrapped(lines) ==
    Len(lines) >= 2 /\ IsFenceOpen(lines[1]) /\ IsFenceClose(lines[Len(lines)])

\* every fence delimiter line removed, wherever it stands
StripFence_EveryLine(lines) ==
    LET NotFence(line) == ~IsFenceOpen(line) IN SelectSeq(lines, NotFence)

\* the single leading and trailing delimiter lines of a wrapped output removed
StripFence(lines) ==
    IF IsWrapped(lines) THEN SubSeq(lines, 2, Len(lines) - 1) ELSE lines

\* the "explanation/note" pattern of a title or of the text after a rule
ExplanationWord == <<"E","x","p","l","a","n","a","t","i","o","n">>
NoteWord == <<"N","o","t","e">>
IsExplanatoryText(s) == Startswith(s, ExplanationWord) \/ Startswith(s, NoteWord)
\* a heading of any level whose title matches the pattern
IsExplanationHeading(line) ==
    \E k \in 1..(Len(line) - 1) :
        /\ \A j \in 1..k : line[j] = "#"
        /\ line[k + 1] = " "
        /\ IsExplanatoryText(Strip(SubSeq(line, k + 1, Len(line))))
\* a horizontal rule
IsRule(line) == Strip(line) = <<"-","-","-">>
\* line i opens an explanatory block: a matching heading, or a rule followed
\* by matching text
IntroducesExplanation(lines, i) ==
    \/ IsExplanationHeading(lines[i])
    \/ IsRule(lines[i]) /\ i < Len(lines) /\ IsExplanatoryText(Strip(lines[i + 1]))

\* the block taken to start at the last line that opens one
ExplanationStart_Last(lines) ==
    LET n == Len(lines)
    IN  IF \A i \in 1..n : ~IntroducesExplanation(lines, i) THEN n + 1
        ELSE CHOOSE i \in 1..n :
                 IntroducesExplanation(lines, i)
                 /\ \A j \in (i + 1)..n : ~IntroducesExplanation(lines, j)

\* where the trailing explanatory block starts (past the end: there is none)
ExplanationStart(lines) ==
    LET n == Len(lines)
    IN  IF \A i \in 1..n : ~IntroducesExplanation(lines, i) THEN n + 1
        ELSE CHOOSE i \in 1..n :
                 IntroducesExplanation(lines, i)
                 /\ \A j \in 1..(i - 1) : ~IntroducesExplanation(lines, j)

RemoveExplanation(lines) == SubSeq(lines, 1, ExplanationStart(lines) - 1)

\* section 4.2: strip the wrapping fence, trim, remove the trailing
\* explanatory block, trim
clean_gemini_response(response_text) ==
    LET unwrapped == Strip(Join(StripFence(Split(Strip(response_text)))))
    IN  Strip(Join(RemoveExplanation(Split(unwrapped))))

----------------------------------------------------------------------------
(* basic_markdown_treatment *)

HeaderMaxLen == 100
HeaderMinLen == 3
ParagraphLen == 50

\* the ligature glyphs U+FB01 and U+FB02, one character each
LigFi == "<U+FB01>"
LigFl == "<U+FB02>"

\* lines 343-344: line.replace('fi', 'fi') and line.replace('fl', 'fl');
\* both arguments of each call are the two ASCII letters
FixLigatures(line) ==
    Replace(Replace(line, <<"f","i">>, <<"f","i">>), <<"f","l">>, <<"f","l">>)

\* lines 347-348
ImproveHeader(line) ==
    IF Len(line) < HeaderMaxLen /\ IsUpper(line) /\ Len(line) > HeaderMinLen
    THEN H2 \o Title(line)
    ELSE line

\* empty lines not appended
Spacing_SkipsEmpty(line) ==
    IF line = <<>> THEN <<>>
    ELSE IF ~Startswith(line, <<"#">>) /\ ~Startswith(line, <<"-">>)
            /\ ~Startswith(line, <<"*">>) /\ Len(line) > ParagraphLen
         THEN <<line, <<>> >>
         ELSE <<line>>

\* lines 351-358: what the line appends to treated_lines
Spacing(line) ==
    IF line # <<>> /\ ~Startswith(line, <<"#">>) /\ ~Startswith(line, <<"-">>)
                   /\ ~Startswith(line, <<"*">>)
    THEN IF Len(line) > ParagraphLen THEN <<line, <<>> >> ELSE <<line>>
    ELSE <<line>>

\* lines 338-358: one iteration of the loop
TreatLine(line) == Spacing(ImproveHeader(FixLigatures(Strip(line))))

RECURSIVE TreatLines(_)
TreatLines(lines) ==
    IF lines = <<>> THEN <<>> ELSE TreatLine(Head(lines)) \o TreatLines(Tail(lines))

\* upper-case lines promoted only when an instruction is given
basic_markdown_treatment_ReadsPrompt(markdown, prompt) ==
    IF prompt = <<>> THEN Join(Split(markdown)) ELSE Join(TreatLines(Split(markdown)))

\* lines 333-360
basic_markdown_treatment(markdown, prompt) == Join(TreatLines(Split(markdown)))

----------------------------------------------------------------------------
(* apply_treatment *)

NoCall == [kind |-> "not_called", content |-> <<>>]

\* line 311: AI_AVAILABLE and os.getenv("OPENAI_API_KEY")
AIConfigured(ai_available, api_key) == ai_available /\ api_key.set /\ api_key.value # <<>>

\* the call made again after a failure
RemoteCallCount_Retry(ai_available, api_key, outcome) ==
    IF AIConfigured(ai_available, api_key)
    THEN IF outcome.kind = "completion" THEN 1 ELSE 2
    ELSE 0

\* lines 311-326: client.chat.completions.create is called once inside the
\* try block when the AI path is configured; neither the except branch nor
\* the else branch calls it
RemoteCallCount(ai_available, api_key, outcome) ==
    IF AIConfigured(ai_available, api_key) THEN 1 ELSE 0

\* the except branch re-raising instead of falling back
apply_treatment_Reraises(req, ai_available, api_key, outcome) ==
    IF AIConfigured(ai_available, api_key)
    THEN IF outcome.kind = "completion"
         THEN [raised |-> "none", treated_markdown |-> outcome.content]
         ELSE [raised |-> outcome.kind, treated_markdown |-> <<>>]
    ELSE [raised |-> "none",
          treated_markdown |-> basic_markdown_treatment(req.markdown, req.prompt)]

\* lines 311-331: the response for one outcome of the remote call
\* (outcome.kind = "completion": choices[0].message.content is outcome.content;
\* any other kind is an exception raised inside the try block)
apply_treatment(req, ai_available, api_key, outcome) ==
    IF AIConfigured(ai_available, api_key)
    THEN IF outcome.kind = "completion"
         THEN [raised |-> "none", treated_markdown |-> outcome.content]
         ELSE [raised |-> "none",
               treated_markdown |-> basic_markdown_treatment(req.markdown, req.prompt)]
    ELSE [raised |-> "none",
          treated_markdown |-> basic_markdown_treatment(req.markdown, req.prompt)]

----------------------------------------------------------------------------
(* The server state: the dict uploaded_files, the directories made by       *)
(* tempfile.mkdtemp, the directories under temp_images and the clock.       *)
(* world is the record [uploaded_files, tmp_dirs, tmp_count, temp_images,   *)
(* now]; a handler maps a world and its inputs to a world and a response.   *)
(* converted is a history variable: the identifiers whose entry a           *)
(* successful convert_pdf has deleted and that were not uploaded since.     *)
(* session_created is a history variable too: for each session directory    *)
(* the clock reading of the convert_pdf that last copied images into it.    *)
(* The clock now is time.time() in milliseconds.                            *)

\* line 300: a session directory older than this many seconds is removed
RetentionSeconds == 3600
\* time.time() is a float of seconds; the model counts milliseconds
MsPerSecond == 1000
RetentionMs == RetentionSeconds * MsPerSecond
\* int(x) of a non-negative float: the whole seconds
IntOfTime(t) == t \div MsPerSecond

\* A value stored in uploaded_files: the dict of lines 89-93 or the str of
\* line 202, tagged with its Python type
UploadEntry(path, fname, size) ==
    [pytype |-> "dict", path |-> path, filename |-> fname, size |-> size]
StrValue(text) == [pytype |-> "str", str |-> text]
\* line 82: os.path.join(temp_dir, pdf.filename); dirname gives dir back
TempPath(dir, fname) == [dir |-> dir, name |-> fname]

\* d[k] = v, del d[k] and {} of a Python dict
Put(d, k, v) == [x \in (DOMAIN d) \cup {k} |-> IF x = k THEN v ELSE d[x]]
Del(d, k) == [x \in (DOMAIN d) \ {k} |-> d[x]]
EmptyDict == [x \in {} |-> StrValue(<<>>)]

\* line 88: pdf.filename.replace('.pdf', '').replace(' ', '_')
FileId(fname) == Replace(Replace(fname, PdfExt, <<>>), <<" ">>, <<"_">>)

\* line 202: file_id + '_images'
ImagesKey(file_id) == file_id \o <<"_","i","m","a","g","e","s">>
SessionPrefix == <<"s","e","s","s","i","o","n","_">>
TempImagesDir == <<"t","e","m","p","_","i","m","a","g","e","s">>
\* line 190: f"session_{file_id}_{int(time.time())}"
SessionId(file_id, t) ==
    SessionPrefix \o file_id \o <<"_">> \o IntToStr(IntOfTime(t))
\* line 191: os.path.join("temp_images", session_id)
SessionImageDir(session_id) == TempImagesDir \o <<"/">> \o session_id
\* line 198: f"/temp_images/{session_id}/{image_file.name}"
ImageUrl(session_id, image_name) ==
    <<"/">> \o TempImagesDir \o <<"/">> \o session_id \o <<"/">> \o image_name

\* The response a caller receives: raised names the exception that ended
\* the handler ("none": it returned), detail is the detail of the error as
\* the sequence of the pieces it is formatted from
NoBody == [status |-> "error"]
HttpError(code, detail) ==
    [status |-> code, detail |-> detail, raised |-> "HTTPException", body |-> NoBody]
HttpOk(body) == [status |-> 200, detail |-> <<>>, raised |-> "none", body |-> body]
\* an exception that no handler catches: the framework answers 500
Unhandled(exc) ==
    [status |-> 500, detail |-> <<"Internal Server Error">>, raised |-> exc,
     body |-> NoBody]
\* str(e) of an HTTPException: "<status_code>: <detail>"
StatusText(code) ==
    CASE code = 400 -> "400" [] code = 404 -> "404" [] code = 500 -> "500"
StrOfHttpError(r) == <<StatusText(r.status), ": ">> \o r.detail

----------------------------------------------------------------------------
(* cleanup_old_temp_images (lines 286-305) *)

\* session_dir.name.split('_')[-1]
LastField(name) ==
    LET n == Len(name)
    IN  IF \A i \in 1..n : name[i] # "_" THEN name
        ELSE LET k == CHOOSE i \in 1..n :
                          name[n + 1 - i] = "_"
                          /\ \A j \in 1..(i - 1) : name[n + 1 - j] # "_"
             IN  SubSeq(name, n + 2 - k, n)

\* int(text) accepts surrounding whitespace and a sign; anything else
\* raises ValueError
IsIntText(text) ==
    LET t == Strip(text)
    IN  \/ IsDigit(t)
        \/ Len(t) > 1 /\ t[1] \in {"+", "-"} /\ IsDigit(Tail(t))
RECURSIVE DigitsToInt(_)
DigitsToInt(ds) ==
    IF ds = <<>> THEN 0
    ELSE 10 * DigitsToInt(SubSeq(ds, 1, Len(ds) - 1)) + (IndexOf(ds[Len(ds)], Digits) - 1)
StrToInt(text) ==
    LET t == Strip(text)
    IN  IF t[1] = "-" THEN 0 - DigitsToInt(Tail(t))
        ELSE IF t[1] = "+" THEN DigitsToInt(Tail(t))
        ELSE DigitsToInt(t)

\* lines 297-302: the directory is removed
IsExpired(name, t) ==
    /\ Startswith(name, SessionPrefix)
    /\ IsIntText(LastField(name))
    /\ t - StrToInt(LastField(name)) * MsPerSecond > RetentionMs

\* the directories under temp_images that are left
cleanup_old_temp_images(dirs, t) == {name \in dirs : ~IsExpired(name, t)}

----------------------------------------------------------------------------
(* upload_pdf (lines 71-102) *)

PdfContentType == "application/pdf"

\* the cleanup of line 78 run before the content-type test of line 74
upload_pdf_CleansFirst(world, pdf) ==
    LET swept == [world EXCEPT !.temp_images = cleanup_old_temp_images(@, world.now)]
        temp_dir == world.tmp_count + 1
        file_id == FileId(pdf.filename)
        entry == UploadEntry(TempPath(temp_dir, pdf.filename), pdf.filename, pdf.size)
    IN  IF pdf.content_type # PdfContentType
        THEN [world |-> swept, response |-> HttpError(400, <<"File must be a PDF">>)]
        ELSE [world |->
                 [swept EXCEPT
                     !.tmp_dirs = @ \cup {temp_dir},
                     !.tmp_count = temp_dir,
                     !.uploaded_files = Put(@, file_id, entry)],
              response |->
                 HttpOk([file_id |-> file_id, filename |-> pdf.filename,
                         size |-> entry.size, status |-> "uploaded"])]

upload_pdf(world, pdf) ==
    IF pdf.content_type # PdfContentType
    THEN [world |-> world, response |-> HttpError(400, <<"File must be a PDF">>)]
    ELSE LET temp_dir == world.tmp_count + 1
             temp_path == TempPath(temp_dir, pdf.filename)
             file_id == FileId(pdf.filename)
             entry == UploadEntry(temp_path, pdf.filename, pdf.size)
         IN  [world |->
                 [world EXCEPT
                     !.temp_images = cleanup_old_temp_images(@, world.now),
                     !.tmp_dirs = @ \cup {temp_dir},
                     !.tmp_count = temp_dir,
                     !.uploaded_files = Put(@, file_id, entry)],
              response |->
                 HttpOk([file_id |-> file_id, filename |-> pdf.filename,
                         size |-> entry.size, status |-> "uploaded"])]

----------------------------------------------------------------------------
(* convert_pdf (lines 104-226).  outcome is what the extractor does when    *)
(* it is called: it raises (kind "raises", with its message) or it writes   *)
(* its output (kind "rendered": has_md tells whether a markdown file is     *)
(* there, markdown is its text, image_files the names of the image files).  *)

\* the collaborator's message left out of the detail
ConversionFailed_NoMessage(text) == HttpError(500, <<"Conversion failed">>)

\* lines 222-226: except Exception as e, with text the pieces of str(e)
ConversionFailed(text) == HttpError(500, <<"Conversion failed: ">> \o text)

\* line 239 raising inside clean_markdown: str(e) of the TypeError
EndswithMessage == "endswith first arg must be str or a tuple of str, not bool"

convert_pdf(world, file_id, marker_available, outcome) ==
    IF file_id \notin DOMAIN world.uploaded_files
    THEN [world |-> world, extractor_calls |-> 0,
          response |-> HttpError(404, <<"File not found. Please upload first.">>)]
    ELSE
    LET file_info == world.uploaded_files[file_id]
    IN  \* line 112: file_info['path'] of a str raises TypeError, outside the try
        IF file_info.pytype # "dict"
        THEN [world |-> world, extractor_calls |-> 0, response |-> Unhandled("TypeError")]
        ELSE
    LET pdf_path == file_info.path
    IN  IF pdf_path.dir \notin world.tmp_dirs
        THEN [world |-> world, extractor_calls |-> 0,
              response |-> HttpError(404, <<"PDF file no longer exists">>)]
        ELSE IF ~marker_available
        THEN [world |-> world, extractor_calls |-> 0,
              response |-> ConversionFailed(
                  StrOfHttpError(HttpError(500, <<"Marker not installed">>)))]
        ELSE IF outcome.kind = "raises"
        THEN [world |-> world, extractor_calls |-> 1,
              response |-> ConversionFailed(<<outcome.message>>)]
        ELSE IF ~outcome.has_md
        THEN [world |-> world, extractor_calls |-> 1,
              response |-> ConversionFailed(StrOfHttpError(HttpError(500,
                  <<"No markdown file generated. Files in directory: ", "[]">>)))]
        ELSE
    LET image_files == outcome.image_files
        session_id == SessionId(file_id, world.now)
        image_urls == [i \in 1..Len(image_files) |-> ImageUrl(session_id, image_files[i])]
        \* lines 187-202: the session directory and its registry entry
        copied == IF image_files = <<>> THEN world
                  ELSE [world EXCEPT
                           !.temp_images = @ \cup {session_id},
                           !.uploaded_files =
                               Put(@, ImagesKey(file_id),
                                   StrValue(SessionImageDir(session_id)))]
        cleaned == clean_markdown(outcome.markdown, file_info.filename, image_urls)
    IN  IF cleaned.raised # "none"
        THEN [world |-> copied, extractor_calls |-> 1,
              response |-> ConversionFailed(<<EndswithMessage>>)]
        ELSE \* lines 209-218
             [world |-> [copied EXCEPT
                            !.tmp_dirs = @ \ {pdf_path.dir},
                            !.uploaded_files = Del(@, file_id)],
              extractor_calls |-> 1,
              response |-> HttpOk([markdown |-> cleaned.value, status |-> "converted",
                                   images |-> image_urls,
                                   image_count |-> Len(image_urls)])]

----------------------------------------------------------------------------
(* generate_epub (lines 362-450).  outcome is what pandoc does: it cannot   *)
(* be started (kind "raises"), or it exits with returncode and stderr and   *)
(* has or has not written the EPUB file.  Only the existence of the         *)
(* temporary directory is kept of the files written into it.                *)

\* the directory left in place
RemoveTempDir_Keeps(world, temp_dir) == world

\* lines 425, 429 and 449: shutil.rmtree(temp_dir)
RemoveTempDir(world, temp_dir) == [world EXCEPT !.tmp_dirs = @ \ {temp_dir}]

\* lines 425 and 450
EpubFailed(text) == HttpError(500, <<"EPUB generation failed: ">> \o text)

generate_epub(world, req, outcome) ==
    LET extracted_title == extract_title_from_markdown(req.markdown)
        temp_dir == world.tmp_count + 1
        made == [world EXCEPT !.tmp_dirs = @ \cup {temp_dir}, !.tmp_count = temp_dir]
        removed == RemoveTempDir(made, temp_dir)
    IN  IF outcome.kind = "raises"
        THEN \* lines 447-450
             [world |-> removed, renderer_calls |-> 1, background |-> {},
              response |-> EpubFailed(<<outcome.message>>)]
        ELSE IF outcome.returncode # 0
        THEN \* lines 423-426, then 447-450
             [world |-> removed, renderer_calls |-> 1, background |-> {},
              response |-> EpubFailed(StrOfHttpError(EpubFailed(<<outcome.stderr>>)))]
        ELSE IF ~outcome.epub_written
        THEN \* lines 428-430, then 447-450
             [world |-> removed, renderer_calls |-> 1, background |-> {},
              response |-> EpubFailed(StrOfHttpError(
                  HttpError(500, <<"EPUB file was not created">>)))]
        ELSE \* lines 435-445: the directory is removed by the background call
             [world |-> made, renderer_calls |-> 1, background |-> {temp_dir},
              response |-> HttpOk([path |-> TempPath(temp_dir, <<"d","o","c","u","m","e","n","t",".","e","p","u","b">>),
                                   filename |-> extracted_title \o <<".","e","p","u","b">>,
                                   status |-> "epub"])]

----------------------------------------------------------------------------
(* Inputs *)

Rep(c, n) == [i \in 1..n |-> c]

\* raw markdown lines given to clean_markdown
CleanLineSet ==
    { <<"#"," ","A">>,                           \* a top-level heading
      <<"#"," ","t">>,                           \* '# ' + stub of t.pdf
      <<"#"," ","t"," ">>,                       \* the same with trailing blank
      <<"#","#"," ","B">>,                       \* a second-level heading
      <<"#","#","#"," ","C">>,                   \* a third-level heading
      <<"#","#"," ","P","a","g","e"," ","7">>,   \* a page marker
      <<"!","[","]","(","_","p","a","g","e","_","1",")">>,
      <<"[","I","m","a","g","e"," ","#","1","]">>,
      <<"#","#"," ","[","I","m","a","g","e"," ","#","2","]">>,
      <<"#","#"," ","P","a","g","e"," ","[","I","m","a","g","e"," ","#","1","]"," ","7">>,                  \* a page marker with a placeholder
      <<"x">>,
      <<>> }

Filenames == { <<"t",".","p","d","f">>, <<"a","_","b","-","c",".","p","d","f">>,
               <<"x","Y",".","p","d","f">> }

\* "/u1", "/u2", ...
Url(k) == <<"/","u">> \o IntToStr(k)
UrlLists == { [i \in 1..n |-> Url(i)] : n \in 0..MaxUrls }

SeqsUpTo(S, n) == UNION { [1..k -> S] : k \in 1..n }

\* markdown lines of a treatment request
TreatLineSet ==
    { <<"#"," ","T","i","t","l","e">>,
      <<"#"," ","A","B","S","T","R","A","C","T">>,
      <<"I","N","T","R","O">>,
      <<"A","B">>,
      <<" "," ","x"," "," ">>,
      <<>>,
      Rep("a", ParagraphLen + 1),
      Rep("a", ParagraphLen),
      <<"-"," ">> \o Rep("a", ParagraphLen + 1),
      Rep("A", HeaderMaxLen - 1),
      Rep("A", HeaderMaxLen),
      <<"o", LigFi, "c","e">> }

Prompts == { <<"f","i","x">>, <<>> }

ApiKeys == { [set |-> FALSE, value |-> <<>>], [set |-> TRUE, value |-> <<>>],
             [set |-> TRUE, value |-> <<"s","k">>] }

\* what the remote call can do: raise, or return a completion
FailureKinds == {"network_error", "bad_status", "empty_choices"}
Completions(markdown) ==
    { <<"o","k">>, markdown, SubSeq(markdown, 1, Len(markdown) \div 2) }
RemoteOutcomes(markdown) ==
    { [kind |-> k, content |-> <<>>] : k \in FailureKinds }
    \cup { [kind |-> "completion", content |-> c] : c \in Completions(markdown) }

NoRequest == [markdown |-> <<>>, prompt |-> <<>>]
NoResponse == [raised |-> "none", treated_markdown |-> <<>>]
NoResult == [raised |-> "none", value |-> <<>>]

\* Documents whose title is extracted: top-level headings with padded, empty
\* and default-looking text, deeper headings, near-headings and text
TitleLineSet ==
    { <<"#"," ","A">>, <<"#"," "," ","B"," ","b"," ">>, <<"#"," ">>,
      <<"#"," ">> \o DefaultTitle,
      <<"#","#"," ","C">>, <<"#","#","#"," ","D">>, <<"#","E">>,
      <<" ","#"," ","F">>, <<"x">>, <<>> }

\* Lines of an output of the remote service: fences with and without a
\* language tag, document lines, a blank line, a rule, explanatory text and
\* an explanation heading
ResponseLineSet ==
    { Fence, Fence \o <<"m","d">>, <<"#"," ","T">>, <<"B","o","d","y">>, <<>>,
      <<"-","-","-">>, ExplanationWord \o <<":"," ","e">>,
      <<"#","#","#"," ">> \o ExplanationWord }

\* Uploads: a filename, two whose stem is the first's with '_images' and
\* that differ in a space and an underscore, and a file that is not a PDF
UploadFilenames == { <<"t",".","p","d","f">>, <<"t"," ","i","m","a","g","e","s",".","p","d","f">>, <<"t","_","i","m","a","g","e","s",".","p","d","f">> }
PdfSizes == { 7 }
Uploads ==
    { [filename |-> f, content_type |-> PdfContentType, size |-> n] :
          f \in UploadFilenames, n \in PdfSizes }
    \cup { [filename |-> <<"t",".","p","d","f">>, content_type |-> "text/plain", size |-> n] :
              n \in PdfSizes }

\* Identifiers given to convert_pdf: of the uploads, the keys of their image
\* directories, and one that nothing was uploaded under
ConvertIds ==
    { FileId(f) : f \in UploadFilenames }
    \cup { ImagesKey(FileId(f)) : f \in UploadFilenames }
    \cup { <<"z","z">> }

\* What the extractor does: it raises, it writes no markdown file, or it
\* writes one (with a title, or with a page marker) with or without an image
ExtractorMessage == "stack expects a non-empty TensorList"
ExtractorOutcomes ==
    { [kind |-> "raises", message |-> ExtractorMessage, has_md |-> FALSE,
       markdown |-> <<>>, image_files |-> <<>>] }
    \cup { [kind |-> "rendered", message |-> "", has_md |-> FALSE,
            markdown |-> <<>>, image_files |-> <<>>] }
    \cup { [kind |-> "rendered", message |-> "", has_md |-> TRUE,
            markdown |-> m, image_files |-> imgs] :
              m \in { <<"#"," ","A">>, <<"#","#"," ","P","a","g","e"," ","7">> },
              imgs \in { <<>>, << <<"f",".","p","n","g">> >> } }
NotInvoked == [calls |-> 0, outcome |-> [kind |-> "none"]]

\* Requests for an EPUB and what pandoc does: it cannot be started, it exits
\* with an error, it exits with 0 with or without the EPUB file
EpubRequests ==
    { [markdown |-> m, title |-> <<"t",".","p","d","f">>] : m \in { <<"#"," ","A">>, <<"x">> } }
PandocMissing == "[Errno 2] No such file or directory: 'pandoc'"
PandocStderr == "pandoc: error"
RendererOutcomes ==
    { [kind |-> "raises", message |-> PandocMissing, returncode |-> 0,
       stderr |-> "", epub_written |-> FALSE],
      [kind |-> "exited", message |-> "", returncode |-> 1,
       stderr |-> PandocStderr, epub_written |-> FALSE],
      [kind |-> "exited", message |-> "", returncode |-> 0,
       stderr |-> "", epub_written |-> FALSE],
      [kind |-> "exited", message |-> "", returncode |-> 0,
       stderr |-> "", epub_written |-> TRUE] }

\* The clock: the server starts 900 ms into a second; the clock then moves
\* on by a retention period less those 900 ms, or by 100 ms more than that
StartMs == 900
ClockSteps == { RetentionMs - StartMs, RetentionMs - StartMs + 100 }

\* A request in flight: op names the endpoint, arg is its argument
NoHttpRequest == [op |-> "none", arg |-> [none |-> TRUE]]
NoHttpResponse == [status |-> 0, detail |-> <<>>, raised |-> "none", body |-> NoBody]
HttpRequests ==
    { [op |-> "upload_pdf", arg |-> [pdf |-> u]] : u \in Uploads }
    \cup { [op |-> "convert_pdf", arg |-> [file_id |-> i]] : i \in ConvertIds }
    \cup { [op |-> "generate_epub", arg |-> [request |-> r]] : r \in EpubRequests }

----------------------------------------------------------------------------
(* The cleaner: clean_markdown applied to one raw document *)

CleanIdle ==
    /\ content = <<>> /\ filename = <<>> /\ temp_image_urls = <<>>
    /\ clean_pc = "idle" /\ cleaned_lines = <<>> /\ title_set = FALSE
    /\ clean_result = NoResult

TreatIdle ==
    /\ request = NoRequest /\ AI_AVAILABLE = FALSE
    /\ OPENAI_API_KEY = [set |-> FALSE, value |-> <<>>]
    /\ treat_pc = "idle" /\ remote = NoCall /\ response = NoResponse
    /\ remote_calls = 0

TitleIdle == markdown_content = <<>> /\ title = <<>> /\ title_pc = "idle"

SanitizeIdle ==
    /\ raw_result = <<>> /\ cleaned_result = <<>> /\ recleaned_result = <<>>
    /\ sanitize_pc = "idle"

ServerIdle ==
    /\ uploaded_files = EmptyDict /\ tmp_dirs = {} /\ tmp_count = 0
    /\ temp_images = {} /\ now = 0 /\ MARKER_AVAILABLE = FALSE
    /\ http_request = NoHttpRequest /\ http_response = NoHttpResponse
    /\ extractor = NotInvoked /\ renderer = NotInvoked /\ epub_cleanup = {}
    /\ converted = {} /\ session_created = EmptyDict

InitClean ==
    /\ content \in { Join(ls) : ls \in SeqsUpTo(CleanLineSet, MaxLines) }
    /\ filename \in Filenames
    /\ temp_image_urls \in UrlLists
    /\ clean_pc = "call"
    /\ cleaned_lines = <<>>
    /\ title_set = FALSE
    /\ clean_result = NoResult
    /\ TreatIdle /\ TitleIdle /\ SanitizeIdle /\ ServerIdle

\* cleaned_lines and title_set are the function's locals when its loop ends
CleanMarkdown ==
    /\ clean_pc = "call"
    /\ LET st == CleanLoop(Split(content), filename, temp_image_urls, CleanStart)
       IN  cleaned_lines' = st.cleaned_lines /\ title_set' = st.title_set
    /\ clean_result' = clean_markdown(content, filename, temp_image_urls)
    /\ clean_pc' = IF clean_result'.raised = "none" THEN "returned" ELSE "raised"
    /\ UNCHANGED <<content, filename, temp_image_urls, treatVars, titleVars, sanitizeVars,
                   serverVars>>

NextClean == CleanMarkdown

SpecClean == InitClean /\ [][NextClean]_vars

----------------------------------------------------------------------------
(* The treatment endpoint: one apply_treatment request *)

InitTreat ==
    /\ request \in { [markdown |-> Join(ls), prompt |-> p] :
                        ls \in SeqsUpTo(TreatLineSet, MaxTreatLines), p \in Prompts }
    /\ AI_AVAILABLE \in BOOLEAN
    /\ OPENAI_API_KEY \in ApiKeys
    /\ treat_pc = "request"
    /\ remote = NoCall
    /\ response = NoResponse
    /\ remote_calls = 0
    /\ CleanIdle /\ TitleIdle /\ SanitizeIdle /\ ServerIdle

ApplyTreatment ==
    /\ treat_pc = "request"
    /\ \E outcome \in (IF AIConfigured(AI_AVAILABLE, OPENAI_API_KEY)
                       THEN RemoteOutcomes(request.markdown) ELSE {NoCall}) :
          /\ remote' = outcome
          /\ remote_calls' = RemoteCallCount(AI_AVAILABLE, OPENAI_API_KEY, outcome)
          /\ response' = apply_treatment(request, AI_AVAILABLE, OPENAI_API_KEY, outcome)
    /\ treat_pc' = "responded"
    /\ UNCHANGED <<request, AI_AVAILABLE, OPENAI_API_KEY, cleanVars, titleVars, sanitizeVars,
                   serverVars>>

NextTreat == ApplyTreatment

SpecTreat == InitTreat /\ [][NextTreat]_vars

----------------------------------------------------------------------------
(* The title of a document: extract_title_from_markdown applied once *)

InitTitle ==
    /\ markdown_content \in { Join(ls) : ls \in SeqsUpTo(TitleLineSet, MaxTitleLines) }
    /\ title = <<>>
    /\ title_pc = "call"
    /\ CleanIdle /\ TreatIdle /\ SanitizeIdle /\ ServerIdle

ExtractTitle ==
    /\ title_pc = "call"
    /\ title' = extract_title_from_markdown(markdown_content)
    /\ title_pc' = "returned"
    /\ UNCHANGED <<markdown_content, cleanVars, treatVars, sanitizeVars, serverVars>>

NextTitle == ExtractTitle

SpecTitle == InitTitle /\ [][NextTitle]_vars

----------------------------------------------------------------------------
(* The sanitizer applied to an output of the remote service, and once more  *)
(* to its own result                                                        *)

InitSanitize ==
    /\ raw_result \in { Join(ls) : ls \in SeqsUpTo(ResponseLineSet, MaxResponseLines) }
    /\ cleaned_result = <<>>
    /\ recleaned_result = <<>>
    /\ sanitize_pc = "call"
    /\ CleanIdle /\ TreatIdle /\ TitleIdle /\ ServerIdle

Sanitize ==
    /\ sanitize_pc = "call"
    /\ cleaned_result' = clean_gemini_response(raw_result)
    /\ sanitize_pc' = "once"
    /\ UNCHANGED <<raw_result, recleaned_result, cleanVars, treatVars, titleVars,
                   serverVars>>

SanitizeAgain ==
    /\ sanitize_pc = "once"
    /\ recleaned_result' = clean_gemini_response(cleaned_result)
    /\ sanitize_pc' = "twice"
    /\ UNCHANGED <<raw_result, cleaned_result, cleanVars, treatVars, titleVars,
                   serverVars>>

NextSanitize == Sanitize \/ SanitizeAgain

SpecSanitize == InitSanitize /\ [][NextSanitize]_vars

----------------------------------------------------------------------------
(* The server: requests arrive one at a time and each handler runs to its   *)
(* end without yielding (the handlers await nothing); the clock advances    *)
(* between them and the cleanup of generate_epub runs after its response    *)

World ==
    [uploaded_files |-> uploaded_files, tmp_dirs |-> tmp_dirs, tmp_count |-> tmp_count,
     temp_images |-> temp_images, now |-> now]
SetWorld(w) ==
    /\ uploaded_files' = w.uploaded_files
    /\ tmp_dirs' = w.tmp_dirs
    /\ tmp_count' = w.tmp_count
    /\ temp_images' = w.temp_images
    /\ now' = w.now

\* a request is in flight and not answered yet
Pending(op) == http_request.op = op /\ http_response = NoHttpResponse
\* the advances made by the clock so far
TicksOf(t) == (t - StartMs) \div (RetentionMs - StartMs)

InitServer ==
    /\ uploaded_files = EmptyDict
    /\ tmp_dirs = {}
    /\ tmp_count = 0
    /\ temp_images = {}
    /\ now = StartMs
    /\ MARKER_AVAILABLE \in BOOLEAN
    /\ http_request = NoHttpRequest
    /\ http_response = NoHttpResponse
    /\ extractor = NotInvoked
    /\ renderer = NotInvoked
    /\ epub_cleanup = {}
    /\ converted = {} /\ session_created = EmptyDict
    /\ CleanIdle /\ TreatIdle /\ TitleIdle /\ SanitizeIdle

\* a client sends the next request once the previous one is answered
ReceiveRequest ==
    /\ http_request = NoHttpRequest \/ http_response # NoHttpResponse
    /\ \E r \in HttpRequests :
          /\ r.op \in {"upload_pdf", "generate_epub"} => tmp_count < MaxTmpDirs
          /\ http_request' = r
    /\ http_response' = NoHttpResponse
    /\ extractor' = NotInvoked
    /\ renderer' = NotInvoked
    /\ UNCHANGED <<worldVars, MARKER_AVAILABLE, epub_cleanup, converted,
                   session_created>>
    /\ UNCHANGED <<cleanVars, treatVars, titleVars, sanitizeVars>>

UploadPdf ==
    /\ Pending("upload_pdf")
    /\ LET r == upload_pdf(World, http_request.arg.pdf)
       IN  /\ SetWorld(r.world)
           /\ http_response' = r.response
           /\ converted' = IF r.response.status = 200
                           THEN converted \ {r.response.body.file_id}
                           ELSE converted
    /\ UNCHANGED <<MARKER_AVAILABLE, http_request, extractor, renderer, epub_cleanup,
                   session_created>>
    /\ UNCHANGED <<cleanVars, treatVars, titleVars, sanitizeVars>>

ConvertPdf ==
    /\ Pending("convert_pdf")
    /\ \E outcome \in ExtractorOutcomes :
          LET r == convert_pdf(World, http_request.arg.file_id, MARKER_AVAILABLE, outcome)
          IN  /\ SetWorld(r.world)
              /\ http_response' = r.response
              /\ extractor' = IF r.extractor_calls = 0 THEN NotInvoked
                              ELSE [calls |-> r.extractor_calls, outcome |-> outcome]
              /\ converted' = IF r.response.status = 200
                              THEN converted \cup {http_request.arg.file_id}
                              ELSE converted
              /\ session_created' =
                    IF r.extractor_calls = 1 /\ outcome.has_md
                                             /\ outcome.image_files # <<>>
                    THEN Put(session_created,
                             SessionId(http_request.arg.file_id, now), now)
                    ELSE session_created
    /\ UNCHANGED <<MARKER_AVAILABLE, http_request, renderer, epub_cleanup>>
    /\ UNCHANGED <<cleanVars, treatVars, titleVars, sanitizeVars>>

GenerateEpub ==
    /\ Pending("generate_epub")
    /\ \E outcome \in RendererOutcomes :
          LET r == generate_epub(World, http_request.arg.request, outcome)
          IN  /\ SetWorld(r.world)
              /\ http_response' = r.response
              /\ renderer' = [calls |-> r.renderer_calls, outcome |-> outcome]
              /\ epub_cleanup' = epub_cleanup \cup r.background
    /\ UNCHANGED <<MARKER_AVAILABLE, http_request, extractor, converted,
                   session_created>>
    /\ UNCHANGED <<cleanVars, treatVars, titleVars, sanitizeVars>>

\* lines 435-445: cleanup_temp_dir, run after the response is sent
EpubBackground ==
    /\ \E temp_dir \in epub_cleanup :
          /\ tmp_dirs' = tmp_dirs \ {temp_dir}
          /\ epub_cleanup' = epub_cleanup \ {temp_dir}
    /\ UNCHANGED <<uploaded_files, tmp_count, temp_images, now, MARKER_AVAILABLE,
                   http_request, http_response, extractor, renderer, converted,
                   session_created>>
    /\ UNCHANGED <<cleanVars, treatVars, titleVars, sanitizeVars>>

\* time.time() moves on between two requests: to the full second at which
\* a timestamp taken at the start is exactly the retention period old, or to
\* a little after it
Tick ==
    /\ http_request = NoHttpRequest \/ http_response # NoHttpResponse
    /\ TicksOf(now) < MaxTicks
    /\ \E d \in ClockSteps : now' = now + d
    /\ UNCHANGED <<uploaded_files, tmp_dirs, tmp_count, temp_images, MARKER_AVAILABLE,
                   http_request, http_response, extractor, renderer, epub_cleanup,
                   converted, session_created>>
    /\ UNCHANGED <<cleanVars, treatVars, titleVars, sanitizeVars>>

NextServer ==
    \/ ReceiveRequest \/ UploadPdf \/ ConvertPdf \/ GenerateEpub
    \/ EpubBackground \/ Tick

SpecServer == InitServer /\ [][NextServer]_vars

----------------------------------------------------------------------------
(* Properties of clean_markdown, checked under SpecClean *)

RawLines == Split(content)
OutLines == Split(clean_result.value)

\* A page marker: trimmed text '## Page ' followed by a numeral
IsPageMarkerLine(line) ==
    LET s == Strip(line) IN Startswith(s, PagePrefix) /\ IsDigit(LastToken(s))
NotPageMarkerLine(line) == ~IsPageMarkerLine(line)

\* A line of the output that stands for a placeholder: a figure link or the notice
IsFigureOrNotice(line) ==
    Startswith(line, <<"!","[","F","i","g","u","r","e"," ">>) \/ line = FigureNotice
NotFigureOrNotice(line) == ~IsFigureOrNotice(line)

\* A raw line is read as the first thing it is: a page marker, else a broken
\* image placeholder, else content (a heading or a text line)
IsContentLine(line) == ~IsPageMarkerLine(line) /\ ~IsBrokenImage(line)
IsTopHeading(line) == IsContentLine(line) /\ Startswith(line, H1)
IsSecondHeading(line) == IsContentLine(line) /\ Startswith(line, H2)

\* C3: the output of clean_markdown contains at most one line starting with
\* '# ', also when the input holds several distinct top-level headings.
C3_AtMostOneTitle ==
    clean_pc = "returned" =>
        Cardinality({i \in 1..Len(OutLines) : Startswith(OutLines[i], H1)}) <= 1

\* C4: for an input with a page-marker line at any position, clean_markdown
\* returns normally, its output has no such line, and every other line is
\* handled as if the marker were absent.
C4_PageMarkerRemoved ==
    (clean_pc # "call" /\ \E i \in 1..Len(RawLines) : IsPageMarkerLine(RawLines[i])) =>
        /\ clean_pc = "returned"
        /\ \A i \in 1..Len(OutLines) : ~IsPageMarkerLine(OutLines[i])
        /\ clean_result = clean_markdown(Join(SelectSeq(RawLines, NotPageMarkerLine)),
                                         filename, temp_image_urls)

\* the placeholders of the input and what each is to become
PlaceholderCount == Len(SelectSeq(RawLines, IsBrokenImage))
ExpectedFigure(n) ==
    IF n <= Len(temp_image_urls)
    THEN <<"!","[","F","i","g","u","r","e"," ">> \o IntToStr(n) \o <<"]","(">>
            \o temp_image_urls[n] \o <<")">>
    ELSE FigureNotice

\* C5: the Nth broken image placeholder in document order becomes
\* '![Figure N](u_N)' with u_N the Nth supplied URL, and every placeholder
\* after the list is exhausted becomes the plain-text notice.
C5_ImageBindingOrder ==
    clean_pc = "returned" =>
        SelectSeq(OutLines, IsFigureOrNotice) = [n \in 1..PlaceholderCount |-> ExpectedFigure(n)]

\* C5 witness: placeholders P1,P2,P3 with URLs [u1,u2] give Figure 1 -> u1,
\* Figure 2 -> u2 and the notice
C5_Witness ==
    /\ clean_pc = "returned"
    /\ PlaceholderCount = 3
    /\ temp_image_urls = <<Url(1), Url(2)>>
    /\ SelectSeq(OutLines, IsFigureOrNotice) =
         << <<"!","[","F","i","g","u","r","e"," ","1","]","(","/","u","1",")">>,
            <<"!","[","F","i","g","u","r","e"," ","2","]","(","/","u","2",")">>,
            FigureNotice >>

\* the case of the post-pass: no top-level heading, some second-level heading
FirstSecondHeading ==
    CHOOSE i \in 1..Len(RawLines) :
        /\ IsSecondHeading(RawLines[i])
        /\ \A j \in 1..(i - 1) : ~IsSecondHeading(RawLines[j])
C9_Case ==
    /\ clean_pc = "returned"
    /\ \A i \in 1..Len(RawLines) : ~IsTopHeading(RawLines[i])
    /\ \E i \in 1..Len(RawLines) : IsSecondHeading(RawLines[i])

\* C9: with no top-level heading and at least one second-level heading, the
\* output begins with '# ' + the text of the first second-level heading, that
\* line is gone from its place, and the other surviving lines keep their order.
C9_PromoteSecondHeading ==
    C9_Case =>
        LET i == FirstSecondHeading
            text == SubSeq(RawLines[i], Len(H2) + 1, Len(RawLines[i]))
            others == SubSeq(RawLines, 1, i - 1) \o SubSeq(RawLines, i + 1, Len(RawLines))
        IN  /\ Head(OutLines) = H1 \o text
            /\ SelectSeq(Tail(OutLines), NotFigureOrNotice) = SelectSeq(others, IsContentLine)
            /\ Len(OutLines) = Len(RawLines)

\* C9 witness: the promoted heading was not the first line of the input
C9_Witness ==
    /\ C9_Case
    /\ FirstSecondHeading > 1
    /\ Len(RawLines) = 3
    /\ Head(OutLines) = <<"#"," ","B">>

\* what title handling is to keep of the raw lines
StubHeading == H1 \o Replace(filename, PdfExt, <<>>)
FirstTopHeading ==
    CHOOSE i \in 1..Len(RawLines) :
        /\ IsTopHeading(RawLines[i])
        /\ \A j \in 1..(i - 1) : ~IsTopHeading(RawLines[j])
HasTopHeading == \E i \in 1..Len(RawLines) : IsTopHeading(RawLines[i])
DroppedByTitleHandling(i) ==
    /\ IsTopHeading(RawLines[i])
    /\ HasTopHeading /\ i > FirstTopHeading
    /\ Strip(RawLines[i]) = StubHeading
RECURSIVE ExpectedKept(_)
ExpectedKept(i) ==
    IF i = 0 THEN <<>>
    ELSE IF IsContentLine(RawLines[i]) /\ ~DroppedByTitleHandling(i)
         THEN Append(ExpectedKept(i - 1), RawLines[i])
         ELSE ExpectedKept(i - 1)

\* C10: the first line starting with '# ' is kept as the title even when it
\* is '# ' + the filename stub; after it title handling drops a line exactly
\* when it is a top-level heading whose trimmed text is '# ' + the stub;
\* deeper headings and non-heading lines pass through unchanged, in order.
C10_TitleHandling ==
    clean_pc = "returned" =>
        /\ SelectSeq(cleaned_lines, NotFigureOrNotice) = ExpectedKept(Len(RawLines))
        /\ title_set = HasTopHeading
        /\ title_set => OutLines = cleaned_lines

\* C10 witness: the title is '# ' + the stub and a later copy of it is dropped
C10_Witness ==
    /\ clean_pc = "returned"
    /\ HasTopHeading
    /\ RawLines[FirstTopHeading] = StubHeading
    /\ \E i \in 1..Len(RawLines) : DroppedByTitleHandling(i)
    /\ StubHeading \in Range(OutLines)

\* The title expected for each filename of the model: '.pdf' removed, '_' and
\* '-' turned into spaces, every word capitalised and the rest lower-cased
SynthesizedTitle ==
    CASE filename = <<"t",".","p","d","f">> -> <<"T">>
      [] filename = <<"a","_","b","-","c",".","p","d","f">> -> <<"A"," ","B"," ","C">>
      [] filename = <<"x","Y",".","p","d","f">> -> <<"X","y">>
      [] OTHER -> <<>>
NoHeadingAtAll ==
    \A i \in 1..Len(RawLines) :
        ~IsTopHeading(RawLines[i]) /\ ~IsSecondHeading(RawLines[i])

\* C11: when the raw markdown has no top-level and no second-level heading,
\* the output starts with the line '# T', T being the filename without
\* '.pdf', with '_' and '-' replaced by spaces, title-cased, and the cleaned
\* lines follow it; for empty input no other line of the output is non-blank.
C11_SynthesizedTitle ==
    (clean_pc = "returned" /\ NoHeadingAtAll) =>
        /\ Len(OutLines) = Len(cleaned_lines) + 2
        /\ OutLines[1] = H1 \o SynthesizedTitle
        /\ OutLines[2] = <<>>
        /\ SubSeq(OutLines, 3, Len(OutLines)) = cleaned_lines
        /\ content = <<>> =>
               \A i \in 2..Len(OutLines) : Strip(OutLines[i]) = <<>>

\* C11 witness: an empty document returned as the synthesized title alone
C11_Witness ==
    /\ clean_pc = "returned"
    /\ content = <<>>
    /\ filename = <<"a","_","b","-","c",".","p","d","f">>
    /\ clean_result.value = <<"#"," ","A"," ","B"," ","C", NL, NL>>

\* a page marker that also has the shape of an image placeholder
IsMarkerWithPlaceholder(line) == IsPageMarkerLine(line) /\ IsBrokenImage(line)
NotMarkerWithPlaceholder(line) == ~IsMarkerWithPlaceholder(line)

\* C22: a line that is a page marker and also matches an image-placeholder
\* shape is treated as a page marker: clean_markdown returns, the line emits
\* nothing and consumes no image URL, so the result is that of the document
\* without the line (numbering and URL binding of the other placeholders
\* included).
C22_PageMarkerBeforePlaceholder ==
    (clean_pc # "call"
     /\ \E i \in 1..Len(RawLines) : IsMarkerWithPlaceholder(RawLines[i])) =>
        /\ clean_pc = "returned"
        /\ clean_result = clean_markdown(Join(SelectSeq(RawLines, NotMarkerWithPlaceholder)),
                                         filename, temp_image_urls)

\* C29: whenever clean_markdown returns, its output has at least one line
\* starting with '# ', so extract_title_from_markdown applied to it returns
\* the trimmed text of the first such line and does not take its
\* 'Academic Paper' default branch.
C29_CleanedHasTitle ==
    clean_pc = "returned" =>
        LET out == Split(clean_result.value)
            titles == SelectSeq(out, LAMBDA line : Startswith(line, H1))
        IN  /\ titles # <<>>
            /\ extract_title_from_markdown(clean_result.value)
                   = Strip(SubSeq(titles[1], 3, Len(titles[1])))

\* C29 witness: a document without any heading, cleaned for 'a_b-c.pdf'; the
\* title extracted from the result is the synthesized 'A B C'
C29_Witness ==
    /\ clean_pc = "returned"
    /\ ~title_set
    /\ \A i \in 1..Len(RawLines) : ~Startswith(RawLines[i], Hash)
    /\ filename = <<"a","_","b","-","c",".","p","d","f">>
    /\ extract_title_from_markdown(clean_result.value) = <<"A"," ","B"," ","C">>

----------------------------------------------------------------------------
(* Properties of apply_treatment and basic_markdown_treatment, checked     *)
(* under SpecTreat                                                          *)

InLines == Split(request.markdown)
TreatedLines == Split(response.treated_markdown)

\* the response was produced by the rule-based engine, not by the remote service
RuleBased == treat_pc = "responded" /\ remote.kind # "completion"

\* C1: when the remote service returns a completion c shorter than 0.8 times
\* the request's markdown, the response is the rule-based treatment of the
\* request and never c.
C1_ShortCompletionRejected ==
    (/\ treat_pc = "responded"
     /\ remote.kind = "completion"
     /\ 10 * Len(remote.content) < 8 * Len(request.markdown)) =>
        /\ response.treated_markdown =
              basic_markdown_treatment(request.markdown, request.prompt)
        /\ response.treated_markdown # remote.content

\* C2: when the AI path is not configured (library absent or key unset) or
\* the remote call fails (network error, non-success status, empty choices
\* list), apply_treatment returns normally with the rule-based treatment of
\* the request; no failure reaches the caller.
C2_FallbackOnFailure ==
    (/\ treat_pc = "responded"
     /\ \/ ~AI_AVAILABLE
        \/ ~OPENAI_API_KEY.set
        \/ OPENAI_API_KEY.value = <<>>
        \/ remote.kind \in FailureKinds) =>
        /\ response.raised = "none"
        /\ response.treated_markdown = Join(TreatLines(InLines))

\* C2 witness: a configured service whose call failed, answered by the
\* rule-based engine, which changed the document
C2_Witness ==
    /\ treat_pc = "responded"
    /\ AI_AVAILABLE /\ OPENAI_API_KEY.set
    /\ remote.kind = "empty_choices"
    /\ response.raised = "none"
    /\ response.treated_markdown # request.markdown
    /\ response.treated_markdown = Join(TreatLines(InLines))

\* C6: for every non-empty markdown m and instruction i,
\* 10 * len(basic_markdown_treatment(m, i)) >= 8 * len(m), also for inputs
\* made largely of leading or trailing whitespace.
C6_RetentionRatio ==
    (RuleBased /\ request.markdown # <<>>) =>
        10 * Len(response.treated_markdown) >= 8 * Len(request.markdown)

\* the image of an input line and where it is to stand in the output
IsLongParagraph(line) ==
    /\ Len(line) > ParagraphLen
    /\ line[1] \notin {"#", "-", "*"}
LineImage(i) == ImproveHeader(FixLigatures(Strip(InLines[i])))
ImagePos(i) == i + Cardinality({j \in 1..(i - 1) : IsLongParagraph(LineImage(j))})

\* C7: the rule-based treatment never deletes, merges or reorders lines: the
\* output has at least as many lines as the input, the images of the input
\* lines occur in it in input order, and the only additions are one blank
\* line directly after a long paragraph line.
C7_LinesPreserved ==
    RuleBased =>
        LET n == Len(InLines)
            added == Cardinality({j \in 1..n : IsLongParagraph(LineImage(j))})
        IN  /\ Len(TreatedLines) >= n
            /\ Len(TreatedLines) = n + added
            /\ \A i \in 1..n :
                 /\ TreatedLines[ImagePos(i)] = LineImage(i)
                 /\ IsLongParagraph(LineImage(i)) => TreatedLines[ImagePos(i) + 1] = <<>>

\* C7 witness: a long paragraph line followed by another line; the blank line
\* stands between their images
C7_Witness ==
    /\ RuleBased
    /\ Len(InLines) = 2
    /\ IsLongParagraph(LineImage(1))
    /\ InLines[2] # <<>>
    /\ TreatedLines = <<LineImage(1), <<>>, LineImage(2)>>

\* a heading line: one or more # and a space
IsHeading(s) ==
    \E k \in 1..(Len(s) - 1) : (\A j \in 1..k : s[j] = "#") /\ s[k + 1] = " "

\* C8: every heading line of the input (trimmed text: one or more '#', then
\* a space) appears in the output with the same level and text, whatever its
\* letter case, upper-case headings included.
C8_HeadingsPreserved ==
    RuleBased =>
        \A i \in 1..Len(InLines) :
            IsHeading(Strip(InLines[i])) => Strip(InLines[i]) \in Range(TreatedLines)

IsShortUpperCase(t) == t # <<>> /\ Len(t) < HeaderMaxLen /\ IsUpper(t)

\* C21: in the rule-based treatment every line that, after trimming, is
\* non-empty, shorter than 100 characters and entirely upper-case is emitted
\* as '## ' followed by its title-cased text, for every length from 1 to 99,
\* and no other line is turned into a heading.
C21_UpperCasePromoted ==
    RuleBased =>
        \A i \in 1..Len(InLines) :
            LET t == Strip(InLines[i])
                emitted == TreatedLines[ImagePos(i)]
            IN  IF IsShortUpperCase(t)
                THEN emitted = H2 \o Title(t)
                ELSE Startswith(emitted, Hash) => Startswith(t, Hash)

\* a text with each ligature glyph spelled as its two ASCII letters
SpelledOut(text) == Replace(Replace(text, <<LigFi>>, <<"f","i">>), <<LigFl>>, <<"f","l">>)

\* C27: the rule-based treatment repairs OCR ligatures: every single-glyph
\* ligature of an input line is replaced by its two-letter ASCII spelling, so
\* no output line contains a ligature glyph.
C27_LigaturesRepaired ==
    RuleBased =>
        /\ \A i \in 1..Len(TreatedLines) :
              LigFi \notin Range(TreatedLines[i]) /\ LigFl \notin Range(TreatedLines[i])
        /\ response.treated_markdown =
              basic_markdown_treatment(SpelledOut(request.markdown), request.prompt)

----------------------------------------------------------------------------
(* Properties of extract_title_from_markdown, checked under SpecTitle *)

TitleLines == Split(markdown_content)
\* the text of a line after its first two characters, trimmed
HeadingText(line) == Strip(SubSeq(line, 3, Len(line)))
\* line i is the first one that starts with '# '
IsFirstTitleLine(i) ==
    /\ Startswith(TitleLines[i], H1)
    /\ \A j \in 1..(i - 1) : ~Startswith(TitleLines[j], H1)

----------------------------------------------------------------------------
(* Properties of the sanitizer, checked under SpecSanitize *)

ResponseLines == Split(Strip(raw_result))
InnerLines == SubSeq(ResponseLines, 2, Len(ResponseLines) - 1)
NoExplanation(lines) == \A i \in 1..Len(lines) : ~IntroducesExplanation(lines, i)
\* an already-clean output: trimmed, with no wrapping fence and no trailing
\* explanatory block
IsClean(s) == Strip(s) = s /\ ~IsWrapped(Split(s)) /\ NoExplanation(Split(s))

----------------------------------------------------------------------------
(* Properties of the server, checked under SpecServer *)

\* the step is the handler of the pending request of this endpoint
Handles(op) == Pending(op) /\ http_response' # NoHttpResponse
\* the request of this endpoint has been answered
Answered(op) == http_request.op = op /\ http_response # NoHttpResponse
\* the identifier names an uploaded PDF that still awaits conversion
NamesPendingUpload(file_id) ==
    /\ file_id \in DOMAIN uploaded_files
    /\ uploaded_files[file_id].pytype = "dict"
NotFoundDetail == <<"File not found. Please upload first.">>

\* C12: convert_pdf called with an identifier that does not name an uploaded
\* PDF still awaiting conversion answers 404 with the detail 'File not
\* found. Please upload first.', does not call the extractor and leaves
\* uploaded_files as it was.
C12_UnknownIdNotFound ==
    [][ (Handles("convert_pdf") /\ ~NamesPendingUpload(http_request.arg.file_id)) =>
            /\ http_response'.status = 404
            /\ http_response'.detail = NotFoundDetail
            /\ extractor'.calls = 0
            /\ uploaded_files' = uploaded_files ]_vars

\* C13: when convert_pdf ends for a registered identifier whose PDF is on
\* disk and the extractor has been called, whatever the exit path (success,
\* extractor failure, no markdown file, exception while cleaning), the
\* temporary directory that holds the PDF is gone.
C13_UploadDirRemoved ==
    [][ (/\ Handles("convert_pdf")
         /\ NamesPendingUpload(http_request.arg.file_id)
         /\ uploaded_files[http_request.arg.file_id].path.dir \in tmp_dirs
         /\ extractor'.calls = 1) =>
            uploaded_files[http_request.arg.file_id].path.dir \notin tmp_dirs' ]_vars

\* C14: every value stored in uploaded_files is a dict with the keys path,
\* filename and size.
C14_RegistryValuesAreRecords ==
    \A k \in DOMAIN uploaded_files :
        /\ uploaded_files[k].pytype = "dict"
        /\ {"path", "filename", "size"} \subseteq DOMAIN uploaded_files[k]

\* C15: an accepted upload never replaces the entry of a pending upload of a
\* different filename: every such entry is still there, unchanged, after it.
C15_DistinctFilesDistinctIds ==
    [][ (Handles("upload_pdf") /\ http_response'.status = 200) =>
            \A k \in DOMAIN uploaded_files :
                (/\ uploaded_files[k].pytype = "dict"
                 /\ uploaded_files[k].filename # http_request.arg.pdf.filename) =>
                    /\ k \in DOMAIN uploaded_files'
                    /\ uploaded_files'[k] = uploaded_files[k] ]_vars

\* the extractor, or the renderer, was called and failed
ExtractorFailed ==
    Answered("convert_pdf") /\ extractor.calls > 0 /\ extractor.outcome.kind = "raises"
RendererFailed ==
    /\ Answered("generate_epub") /\ renderer.calls > 0
    /\ renderer.outcome.kind = "raises" \/ renderer.outcome.returncode # 0
RendererMessage ==
    IF renderer.outcome.kind = "raises" THEN renderer.outcome.message
    ELSE renderer.outcome.stderr

ConvertArg == http_request.arg.file_id

\* C23: upload_pdf creates the entry of the file's identifier; a convert_pdf
\* on it that succeeds deletes the entry; every later convert_pdf on the same
\* identifier, with no upload of it in between, fails with 404.
C23_ConvertedAtMostOnce ==
    [][ /\ (Handles("upload_pdf") /\ http_response'.status = 200) =>
               http_response'.body.file_id \in DOMAIN uploaded_files'
        /\ (Handles("convert_pdf") /\ http_response'.status = 200) =>
               ConvertArg \notin DOMAIN uploaded_files'
        /\ (Handles("convert_pdf") /\ ConvertArg \in converted) =>
               http_response'.status = 404 ]_vars

\* the name of a session directory whose timestamp is more than 3600
\* seconds before the clock reading t
HasOldTimestamp(name, t) ==
    /\ Startswith(name, SessionPrefix)
    /\ IsIntText(LastField(name))
    /\ t > (StrToInt(LastField(name)) + RetentionSeconds) * MsPerSecond

\* C24: an accepted upload removes a directory under temp_images if and only
\* if its name starts with 'session_', ends in an integer timestamp and that
\* timestamp is more than 3600 seconds before the current time; no other
\* step removes one; so the images a conversion has extracted are removed no
\* earlier than one hour after the conversion.
C24_OldSessionsRemoved ==
    [][ /\ temp_images' /= temp_images =>
               Handles("upload_pdf") \/ Handles("convert_pdf")
        /\ ~(Handles("upload_pdf") /\ http_response'.status = 200) =>
               temp_images \subseteq temp_images'
        /\ (Handles("upload_pdf") /\ http_response'.status = 200) =>
               /\ temp_images' \subseteq temp_images
               /\ \A name \in temp_images :
                     name \notin temp_images' <=> HasOldTimestamp(name, now)
               /\ \A name \in temp_images \ temp_images' :
                     name \in DOMAIN session_created =>
                         now - session_created[name] >= RetentionMs ]_vars

\* C25: every generate_epub call that created its temporary directory leaves
\* none behind: when it ends with an error (the renderer exits non-zero, the
\* EPUB file is missing, an exception is raised) the directory it made is
\* gone when the error reaches the caller; when it succeeds the directory is
\* handed to the cleanup that runs after the response is sent, stays handed
\* over until then and is removed by it.
C25_EpubDirReleased ==
    [][ /\ (Handles("generate_epub") /\ http_response'.status # 200) =>
               /\ tmp_count' = tmp_count + 1
               /\ tmp_dirs' = tmp_dirs
               /\ epub_cleanup' = epub_cleanup
        /\ (Handles("generate_epub") /\ http_response'.status = 200) =>
               /\ tmp_count' = tmp_count + 1
               /\ tmp_dirs' = tmp_dirs \cup {tmp_count'}
               /\ epub_cleanup' = epub_cleanup \cup {tmp_count'}
        /\ \A temp_dir \in epub_cleanup :
               IF temp_dir \in epub_cleanup'
               THEN temp_dir \in tmp_dirs'
               ELSE temp_dir \notin tmp_dirs' ]_vars

\* C25 witness: pandoc exited with 0 without writing the EPUB file; the
\* directory made for it is gone when the 500 is answered
C25_Witness ==
    /\ Answered("generate_epub")
    /\ renderer.calls = 1
    /\ renderer.outcome.kind = "exited"
    /\ renderer.outcome.returncode = 0
    /\ ~renderer.outcome.epub_written
    /\ http_response.status = 500
    /\ tmp_count = 1
    /\ tmp_dirs = {}
    /\ epub_cleanup = {}

\* the file of a pending upload_pdf
UploadArg == http_request.arg.pdf

\* C26: upload_pdf called with a content type other than 'application/pdf'
\* is rejected with a 400 client error and changes nothing: no registry entry
\* is added or overwritten, no temporary directory is created and the
\* old-image cleanup does not run.
C26_NonPdfRejected ==
    [][ (Handles("upload_pdf") /\ UploadArg.content_type # PdfContentType) =>
            /\ http_response'.status = 400
            /\ http_response'.raised = "HTTPException"
            /\ uploaded_files' = uploaded_files
            /\ tmp_dirs' = tmp_dirs /\ tmp_count' = tmp_count
            /\ temp_images' = temp_images ]_vars

\* C26 witness: a text file named as an upload that is still registered is
\* rejected while a session directory is due for removal; entry and
\* directory are still there
C26_Witness ==
    /\ Answered("upload_pdf")
    /\ UploadArg.content_type = "text/plain"
    /\ http_response.status = 400
    /\ FileId(UploadArg.filename) \in DOMAIN uploaded_files
    /\ \E name \in temp_images : IsExpired(name, now)

\* C30: if convert_pdf ends with an error for an identifier that is in the
\* registry, the registry is exactly what it was before the call: the entry
\* of the identifier is still there with the same path and no other key has
\* been added or changed.
C30_FailedConvertKeepsRegistry ==
    [][ (/\ Handles("convert_pdf")
         /\ ConvertArg \in DOMAIN uploaded_files
         /\ http_response'.status # 200) =>
            /\ ConvertArg \in DOMAIN uploaded_files'
            /\ uploaded_files'[ConvertArg] = uploaded_files[ConvertArg]
            /\ uploaded_files' = uploaded_files ]_vars

====
